---- MODULE Spec2Model ----
(***************************************************************************)
(* State-machine model of slurmy's Slurm backend                           *)
(* (src/slurmy/backends/slurm.py): one backend object (the job handle)     *)
(* with submit / cancel / status / exitcode, the command builders, the     *)
(* sacct output parser, and the listener loop returned by get_listen_func. *)
(*                                                                         *)
(* Conventions                                                             *)
(*   - Python None is the empty tuple <<>>, a present value v is <<v>>.    *)
(*   - A command is the token list shlex.split returns.  A token is a      *)
(*     record [flag, arg]: "-J" is [flag |-> "-J", arg |-> ""], a plain    *)
(*     word w is [flag |-> "", arg |-> w] and "--qos=x" is                 *)
(*     [flag |-> "--qos=", arg |-> "x"].                                   *)
(*   - A sacct data line "<id><suffix>|<state>|<exitcode>" is the record   *)
(*     [id, suffix, state, exitcode]; id is the decimal text of the job    *)
(*     number and suffix is "", ".batch", ".extern" or ".0".               *)
(***************************************************************************)
EXTENDS Integers, Sequences, FiniteSets, TLC

VARIABLES
    self,            \* the Slurm object: its options, _job_id and _exitcode
    command_wrapper, \* options.Main.command_wrapper[bid] used by Base._get_command
    sched_next_id,   \* the scheduler: the job number the next sbatch hands out
    call,            \* the last finished call on the object (observation)
    reported,        \* the Status the last returning status() call returned
    finished_for,    \* the values of _job_id under which status() has returned
                     \* Status.FINISHED
    submit_command,  \* the last list _get_submit_command returned
    lpc,             \* listen(): position in its loop
    results,         \* the results queue handed to listen()
    poll,            \* listen(): the locals of its current iteration
    emitted          \* the job ids in the batches of the listener's earlier iterations

vars == <<self, command_wrapper, sched_next_id, call, reported, finished_for,
          submit_command, lpc, results, poll, emitted>>

handle_vars == <<self, sched_next_id, call, reported, finished_for>>

\* some status() call has returned Status.FINISHED
ever_finished == finished_for # {}
listen_vars == <<lpc, results, poll, emitted>>

-----------------------------------------------------------------------------
(* Bounds of the model *)

\* most data lines in one per-job sacct answer
MaxRows == 2
\* most data lines in one listener sacct answer
MaxPollRows == 2
\* most batches waiting in the results queue (the consumer lags at most this far)
MaxQueue == 1
\* most data lines in one sacct answer when an object and the listener run side
\* by side (SpecSys)
SysRows == 1

\* job numbers the scheduler hands out
JobIds == {1, 2}

-----------------------------------------------------------------------------
(* Python values *)

None == <<>>
Some(v) == <<v>>

\* truth value of an optional string: None and '' are false
Truthy(opt) == opt # None /\ opt[1] # ""

\* truth value of an optional int: None and 0 are false
TruthyInt(opt) == opt # None /\ opt[1] # 0

Digits == <<"0", "1", "2", "3", "4", "5", "6", "7", "8", "9">>

\* '{}'.format(n) for a small non-negative int
FormatInt(n) == Digits[n + 1]

\* '{}'.format(x) for an optional int: None prints as the word None
FormatOptInt(opt) == IF opt = None THEN "None" ELSE FormatInt(opt[1])

\* int(s): Some(n) for decimal text, None where Python raises ValueError
ParseInt(s) ==
    IF \E i \in 1..Len(Digits) : Digits[i] = s
    THEN Some((CHOOSE i \in 1..Len(Digits) : Digits[i] = s) - 1)
    ELSE None

Word(w) == [flag |-> "", arg |-> w]
Flag(f) == [flag |-> f, arg |-> ""]
FlagEq(f, w) == [flag |-> f, arg |-> w]

RECURSIVE Flatten(_)
\* ' '.join(list) followed by shlex.split: the words of all items in order
Flatten(items) ==
    IF items = <<>> THEN <<>> ELSE Head(items) \o Flatten(Tail(items))

Words(ws) == [i \in 1..Len(ws) |-> Word(ws[i])]

-----------------------------------------------------------------------------
(* Command construction *)

\* Base.wrapper.get(run_script): the script token the wrapper resolves to
WrapperGet(run_script) == <<Word(run_script[1])>>

\* Base._get_command(command, bid): the configured command wrapper, if any,
\* is put in front of the command
_get_command(command, wrapper) ==
    IF wrapper = None THEN command ELSE <<Word(wrapper[1])>> \o command

\* `if value: command += '<flag> {} '.format(value)`
Opt(value, flag) ==
    IF Truthy(value) THEN <<Flag(flag), Word(value[1])>> ELSE <<>>

\* `if value: command += '<flag>={} '.format(value)`
OptEq(value, flag) ==
    IF Truthy(value) THEN <<FlagEq(flag, value[1])>> ELSE <<>>

\* run_args: appended verbatim when a str, space-joined when a list
RunArgs(run_args) ==
    IF run_args.kind = "str" THEN
        IF run_args.words = <<>> THEN <<>> ELSE Words(run_args.words)
    ELSE IF run_args.kind = "list" THEN
        IF run_args.items = <<>> THEN <<>> ELSE Words(Flatten(run_args.items))
    ELSE <<>>

\* variant: the exclude option is added before the partition option
SubmitCommandExcludeFirst(s, wrapper) ==
    LET submit_command_ ==
            <<Word("sbatch")>>
            \o Opt(s.name, "-J")
            \o Opt(s.log, "-o")
            \o Opt(s.exclude, "-x")
            \o Opt(s.partition, "-p")
            \o Opt(s.clusters, "-M")
            \o OptEq(s.qos, "--qos=")
            \o OptEq(s.mem, "--mem=")
            \o OptEq(s.time, "--time=")
            \o OptEq(s.export, "--export=")
            \o WrapperGet(s.run_script)
            \o RunArgs(s.run_args)
    IN  _get_command(submit_command_, wrapper)

_get_submit_command(s, wrapper) ==
    LET submit_command_ ==
            <<Word("sbatch")>>
            \o Opt(s.name, "-J")
            \o Opt(s.log, "-o")
            \o Opt(s.partition, "-p")
            \o Opt(s.exclude, "-x")
            \o Opt(s.clusters, "-M")
            \o OptEq(s.qos, "--qos=")
            \o OptEq(s.mem, "--mem=")
            \o OptEq(s.time, "--time=")
            \o OptEq(s.export, "--export=")
            \o WrapperGet(s.run_script)
            \o RunArgs(s.run_args)
    IN  _get_command(submit_command_, wrapper)

\* `if job_id: command += '-j {} '.format(job_id)`
OptInt(value, flag) ==
    IF TruthyInt(value) THEN <<Flag(flag), Word(FormatInt(value[1]))>> ELSE <<>>

_get_sacct_command(column, job_id, user, partition, clusters, wrapper) ==
    LET sacct_command ==
            <<Word("sacct")>>
            \o Opt(partition, "-r")
            \o Opt(clusters, "-M")
            \o OptInt(job_id, "-j")
            \o Opt(user, "-u")
            \o <<Flag("-P"), Flag("-o"), Word(column)>>
    IN  _get_command(sacct_command, wrapper)

-----------------------------------------------------------------------------
(* Objects *)

OptionFields ==
    {"name", "log", "partition", "exclude", "clusters", "qos", "mem", "time", "export"}

\* the value an option holds when it is given
OptionValue ==
    [name |-> "job", log |-> "out.log", partition |-> "part", exclude |-> "node1",
     clusters |-> "clus", qos |-> "high", mem |-> "4G", time |-> "10:00",
     export |-> "ALL"]

\* an option is absent (None), empty ('') or given
OptionChoices(f) == {None, Some(""), Some(OptionValue[f])}

RunArgsChoices ==
    {[kind |-> "none"],
     [kind |-> "str", words |-> <<>>],
     [kind |-> "str", words |-> <<"a", "b">>],
     [kind |-> "list", items |-> <<>>],
     [kind |-> "list", items |-> << <<"a">>, <<"b", "c">> >>]}

WrapperChoices == {None, Some("wrap")}

\* Slurm.__init__: the options as passed, no job id, no exit code
New(opts, run_args) ==
    [name |-> opts.name, log |-> opts.log, run_script |-> Some("run.sh"),
     run_args |-> run_args, partition |-> opts.partition, clusters |-> opts.clusters,
     qos |-> opts.qos, exclude |-> opts.exclude, mem |-> opts.mem, time |-> opts.time,
     export |-> opts.export, _job_id |-> None, _exitcode |-> None]

AllOptions ==
    [name : OptionChoices("name"), log : OptionChoices("log"),
     partition : OptionChoices("partition"), exclude : OptionChoices("exclude"),
     clusters : OptionChoices("clusters"), qos : OptionChoices("qos"),
     mem : OptionChoices("mem"), time : OptionChoices("time"),
     export : OptionChoices("export")]

NoOptions == [f \in OptionFields |-> None]

-----------------------------------------------------------------------------
(* The scheduler's command-line tools, as the backend sees them *)

Suffixes == {"", ".batch", ".extern", ".0"}

\* <<State, ExitCode>> columns sacct prints
StateCodes ==
    {<<"PENDING", "0:0">>, <<"RUNNING", "0:0">>, <<"COMPLETED", "0:0">>,
     <<"FAILED", "1:0">>}

\* the data lines sacct can print for the jobs `ids`
Rows(ids) ==
    {[id |-> FormatInt(j), suffix |-> x, state |-> sc[1], exitcode |-> sc[2]] :
        j \in ids, x \in Suffixes, sc \in StateCodes}

SeqsUpTo(S, n) == UNION {[1..k -> S] : k \in 0..n}

\* the jobs a sacct command lists: the one named by -j, else every job of the scope
Scope(command) ==
    IF \E i \in 1..(Len(command) - 1) : command[i] = Flag("-j")
    THEN {j \in JobIds : \E i \in 1..(Len(command) - 1) :
            command[i] = Flag("-j") /\ command[i + 1] = Word(FormatInt(j))}
    ELSE JobIds

\* subprocess.check_output(sacct ...): the process fails, or prints a header line
\* and at most `n` data lines (held without the header)
SacctOutcomes(command, n) ==
    {[proc |-> "fail", out |-> <<>>]}
    \cup {[proc |-> "ok", out |-> o] : o \in SeqsUpTo(Rows(Scope(command)), n)}

\* the scheduler of SpecSys: its answers list no job steps, and a job is either
\* running or has failed
SysOutcomes(command) ==
    {[proc |-> "fail", out |-> <<>>]}
    \cup {[proc |-> "ok", out |-> o] :
            o \in SeqsUpTo({r \in Rows(Scope(command)) :
                              r.suffix = "" /\ r.state \in {"RUNNING", "FAILED"}},
                           SysRows)}

\* the ways a sacct command can end: under `sys` (an object and the listener side
\* by side) those of the smaller scheduler, else those of up to n data lines
SacctAnswers(command, n, sys) ==
    IF sys THEN SysOutcomes(command) ELSE SacctOutcomes(command, n)

\* sbatch prints after creating job n, split at ' ': the documented line, the
\* line of a multi-cluster setup, and two layouts the parser cannot read
SubmitStrings(n) ==
    {<<"Submitted", "batch", "job", FormatInt(n)>>,
     <<"Submitted", "batch", "job", FormatInt(n), "on", "cluster", "clus">>,
     <<"sbatch:", "Submitted", "batch", "job", FormatInt(n)>>,
     <<"Submitted", FormatInt(n)>>}

-----------------------------------------------------------------------------
(* Slurm: parsing and the four calls *)

\* variant: PENDING is left out of the running set
RunStatesWithoutPending == {"RUNNING"}

_run_states == {"PENDING", "RUNNING"}

\* `marker in job_string`
Contains(entry, marker) == entry.suffix = marker

RECURSIVE SacctLoop(_, _)
\* the for loop of _get_sacct_entry over sacct_output[1:]
SacctLoop(entries, sacct_return) ==
    IF entries = <<>> THEN sacct_return
    ELSE LET entry == Head(entries)
         IN  SacctLoop(Tail(entries),
                       IF Contains(entry, ".batch") THEN sacct_return
                       ELSE [finished |-> entry.state, success |-> entry.exitcode])

\* variant: a failed sacct process is caught and read as "no entry"
GetSacctEntrySwallowingFailure(env) ==
    IF env.proc = "fail" THEN [raised |-> "", value |-> None]
    ELSE IF Len(env.out) > 0 THEN [raised |-> "", value |-> Some(SacctLoop(env.out, <<>>))]
    ELSE [raised |-> "", value |-> None]

\* variant: an answer of the header line alone is parsed like one with data lines
GetSacctEntryHeaderAsRow(env) ==
    IF env.proc = "fail" THEN [raised |-> "CalledProcessError", value |-> None]
    ELSE [raised |-> "", value |-> Some(SacctLoop(env.out, <<>>))]

\* _get_sacct_entry once check_output has run: [raised, value]
_get_sacct_entry(env) ==
    IF env.proc = "fail" THEN [raised |-> "CalledProcessError", value |-> None]
    ELSE IF Len(env.out) > 0 THEN [raised |-> "", value |-> Some(SacctLoop(env.out, <<>>))]
    ELSE [raised |-> "", value |-> None]

\* the command _get_sacct_entry runs for object s
SacctCommandOf(s, wrapper) ==
    _get_sacct_command("Job,State,ExitCode", s._job_id, None, s.partition, s.clusters,
                       wrapper)

\* variant: a status() that finds the job running forgets the stored exit code
StatusCallClearingExitcode(s, env) ==
    LET sacct_return == _get_sacct_entry(env)
    IN  IF sacct_return.raised # "" THEN
            [self |-> s, raised |-> sacct_return.raised, ret |-> None]
        ELSE IF sacct_return.value = None THEN
            [self |-> [s EXCEPT !._exitcode = None], raised |-> "",
             ret |-> Some("Status.RUNNING")]
        ELSE IF "finished" \notin DOMAIN sacct_return.value[1] THEN
            [self |-> s, raised |-> "KeyError", ret |-> None]
        ELSE IF sacct_return.value[1]["finished"] \notin _run_states THEN
            [self |-> [s EXCEPT !._exitcode = Some(sacct_return.value[1]["success"])],
             raised |-> "", ret |-> Some("Status.FINISHED")]
        ELSE [self |-> [s EXCEPT !._exitcode = None], raised |-> "",
              ret |-> Some("Status.RUNNING")]

\* variant: the exit code is stored before the state is looked at
StatusCallStoringAlways(s, env) ==
    LET sacct_return == _get_sacct_entry(env)
    IN  IF sacct_return.raised # "" THEN
            [self |-> s, raised |-> sacct_return.raised, ret |-> None]
        ELSE IF sacct_return.value = None THEN
            [self |-> s, raised |-> "", ret |-> Some("Status.RUNNING")]
        ELSE IF "finished" \notin DOMAIN sacct_return.value[1] THEN
            [self |-> s, raised |-> "KeyError", ret |-> None]
        ELSE IF sacct_return.value[1]["finished"] \notin _run_states THEN
            [self |-> [s EXCEPT !._exitcode = Some(sacct_return.value[1]["success"])],
             raised |-> "", ret |-> Some("Status.FINISHED")]
        ELSE [self |-> [s EXCEPT !._exitcode = Some(sacct_return.value[1]["success"])],
              raised |-> "", ret |-> Some("Status.RUNNING")]

\* Slurm.status on object s, the sacct process ending as env:
\* [self (the object afterwards), raised, ret]
status_call(s, env) ==
    LET sacct_return == _get_sacct_entry(env)
    IN  IF sacct_return.raised # "" THEN
            [self |-> s, raised |-> sacct_return.raised, ret |-> None]
        ELSE IF sacct_return.value = None THEN
            [self |-> s, raised |-> "", ret |-> Some("Status.RUNNING")]
        ELSE IF "finished" \notin DOMAIN sacct_return.value[1] THEN
            [self |-> s, raised |-> "KeyError", ret |-> None]
        ELSE IF sacct_return.value[1]["finished"] \notin _run_states THEN
            [self |-> [s EXCEPT !._exitcode = Some(sacct_return.value[1]["success"])],
             raised |-> "", ret |-> Some("Status.FINISHED")]
        ELSE [self |-> s, raised |-> "", ret |-> Some("Status.RUNNING")]

\* variant: exitcode() runs status() every time
ExitcodeQueriesAlways(s) == TRUE

\* does exitcode() run status() first
ExitcodeQueries(s) == s._exitcode = None

\* the Status a status() call reports to `reported` / `ever_finished`
Reported(r, old) == IF r.ret # None THEN r.ret ELSE old

FinishedFor(r, s, old) ==
    IF r.ret = Some("Status.FINISHED") THEN old \cup {s._job_id} ELSE old

\* variant: the job id is read from the last token of the line
ParseSubmitLastToken(submit_string) ==
    IF Len(submit_string) < 4 THEN [raised |-> "IndexError", job_id |-> None]
    ELSE IF ParseInt(submit_string[Len(submit_string)]) = None THEN
        [raised |-> "ValueError", job_id |-> None]
    ELSE [raised |-> "", job_id |-> ParseInt(submit_string[Len(submit_string)])]

\* submit once check_output has printed submit_string: [raised, job_id]
ParseSubmit(submit_string) ==
    IF Len(submit_string) < 4 THEN [raised |-> "IndexError", job_id |-> None]
    ELSE IF ParseInt(submit_string[4]) = None THEN [raised |-> "ValueError", job_id |-> None]
    ELSE [raised |-> "", job_id |-> ParseInt(submit_string[4])]

\* variant: a new job id discards the exit code stored for the earlier job
SubmittedResettingExitcode(s, job_id) ==
    [s EXCEPT !._job_id = job_id, !._exitcode = None]

\* `self._job_id = job_id`: the object after a submit() that parsed job_id
Submitted(s, job_id) == [s EXCEPT !._job_id = job_id]

\* no call is in progress and the caller holds no result
NoCall ==
    [op |-> "", proc |-> "", raised |-> "", ret |-> None,
     pre |-> New(NoOptions, [kind |-> "none"]), cmds |-> <<>>, out |-> <<>>]

\* what the caller of a finished call holds: under `sys` the caller is not
\* followed, so nothing
Observed(sys, c) == IF sys THEN NoCall ELSE c

SubmitCall(sys) ==
    LET submit_list == _get_submit_command(self, command_wrapper)
    IN  /\ call = NoCall
        /\ submit_command' = Some(submit_list)
        /\ UNCHANGED <<command_wrapper, reported, finished_for, listen_vars>>
        /\ \/ /\ self' = self
              /\ call' = Observed(sys,
                            [op |-> "submit", proc |-> "fail",
                             raised |-> "CalledProcessError", ret |-> None, pre |-> self,
                             cmds |-> <<submit_list>>, out |-> <<>>])
              /\ UNCHANGED sched_next_id
           \/ /\ sched_next_id \in JobIds
              /\ sched_next_id' = sched_next_id + 1
              /\ \E submit_string \in SubmitStrings(sched_next_id) :
                    LET parsed == ParseSubmit(submit_string)
                    IN  /\ self' = IF parsed.raised = ""
                                   THEN Submitted(self, parsed.job_id)
                                   ELSE self
                        /\ call' = Observed(sys,
                                      [op |-> "submit", proc |-> "ok",
                                       raised |-> parsed.raised, ret |-> parsed.job_id,
                                       pre |-> self, cmds |-> <<submit_list>>,
                                       out |-> submit_string])

submit == SubmitCall(FALSE)

CancelCall(sys) ==
    LET cancel_command ==
            _get_command(<<Word("scancel"), Word(FormatOptInt(self._job_id))>>,
                         command_wrapper)
    IN  /\ call = NoCall
        /\ \E exit \in {"ok", "fail"} :
              call' = Observed(sys,
                        [op |-> "cancel", proc |-> exit, raised |-> "", ret |-> Some(None),
                         pre |-> self, cmds |-> <<cancel_command>>, out |-> <<>>])
        /\ UNCHANGED <<self, command_wrapper, sched_next_id, reported, finished_for,
                       submit_command, listen_vars>>

cancel == CancelCall(FALSE)

StatusCall(sys) ==
    LET sacct_command == SacctCommandOf(self, command_wrapper)
    IN  /\ call = NoCall
        /\ \E env \in SacctAnswers(sacct_command, MaxRows, sys) :
              LET r == status_call(self, env)
              IN  /\ self' = r.self
                  /\ call' = Observed(sys,
                                [op |-> "status", proc |-> env.proc, raised |-> r.raised,
                                 ret |-> r.ret, pre |-> self, cmds |-> <<sacct_command>>,
                                 out |-> env.out])
                  /\ reported' = Reported(r, reported)
                  /\ finished_for' = FinishedFor(r, self, finished_for)
        /\ UNCHANGED <<command_wrapper, sched_next_id, submit_command, listen_vars>>

status == StatusCall(FALSE)

ExitcodeCall(sys) ==
    LET sacct_command == SacctCommandOf(self, command_wrapper)
    IN  /\ call = NoCall
        /\ \/ /\ ExitcodeQueries(self)
              /\ \E env \in SacctAnswers(sacct_command, MaxRows, sys) :
                    LET r == status_call(self, env)
                    IN  /\ self' = r.self
                        /\ call' = Observed(sys,
                                      [op |-> "exitcode", proc |-> env.proc,
                                       raised |-> r.raised,
                                       ret |-> IF r.raised = ""
                                               THEN Some(r.self._exitcode) ELSE None,
                                       pre |-> self, cmds |-> <<sacct_command>>,
                                       out |-> env.out])
                        /\ reported' = Reported(r, reported)
                        /\ finished_for' = FinishedFor(r, self, finished_for)
           \/ /\ ~ExitcodeQueries(self)
              /\ call' = Observed(sys,
                            [op |-> "exitcode", proc |-> "", raised |-> "",
                             ret |-> Some(self._exitcode), pre |-> self, cmds |-> <<>>,
                             out |-> <<>>])
              /\ UNCHANGED <<self, reported, finished_for>>
        /\ UNCHANGED <<command_wrapper, sched_next_id, submit_command, listen_vars>>

exitcode == ExitcodeCall(FALSE)

\* the caller has taken the result (or the exception) of its last call
call_done ==
    /\ call # NoCall
    /\ call' = NoCall
    /\ UNCHANGED <<self, command_wrapper, sched_next_id, reported, finished_for,
                   submit_command, listen_vars>>

-----------------------------------------------------------------------------
(* get_listen_func: the listener loop *)

\* options.Main.user
User == Some("alice")

\* the command get_listen_func builds once, before listen() runs
ListenCommand(wrapper) ==
    _get_sacct_command("JobID,State,ExitCode", None, User, None, None, wrapper)

\* int(job_id) of a data line's first column
EntryInt(entry) == IF entry.suffix = "" THEN ParseInt(entry.id) ELSE None

RECURSIVE ListenLoopFirstWins(_, _)
\* variant: a job id already recorded keeps the state and exit code of its first
\* line
ListenLoopFirstWins(entries, acc) ==
    IF entries = <<>> \/ acc.raised # "" THEN acc
    ELSE LET res == Head(entries)
         IN  IF Contains(res, ".batch") \/ Contains(res, ".extern") THEN
                 ListenLoopFirstWins(Tail(entries), acc)
             ELSE IF EntryInt(res) = None THEN [acc EXCEPT !.raised = "ValueError"]
             ELSE LET job_id == EntryInt(res)[1]
                  IN  ListenLoopFirstWins(Tail(entries),
                        [raised |-> "",
                         job_ids |-> acc.job_ids \cup {job_id},
                         return_states |->
                            [j \in acc.job_ids \cup {job_id} |->
                                IF j \in acc.job_ids THEN acc.return_states[j]
                                ELSE res.state],
                         return_exitcodes |->
                            [j \in acc.job_ids \cup {job_id} |->
                                IF j \in acc.job_ids THEN acc.return_exitcodes[j]
                                ELSE res.exitcode]])

RECURSIVE ListenLoop(_, _)
\* the first for loop of listen() over result[1:], from the locals `acc`:
\* [raised, job_ids, return_states, return_exitcodes]
ListenLoop(entries, acc) ==
    IF entries = <<>> \/ acc.raised # "" THEN acc
    ELSE LET res == Head(entries)
         IN  IF Contains(res, ".batch") \/ Contains(res, ".extern") THEN
                 ListenLoop(Tail(entries), acc)
             ELSE IF EntryInt(res) = None THEN [acc EXCEPT !.raised = "ValueError"]
             ELSE LET job_id == EntryInt(res)[1]
                  IN  ListenLoop(Tail(entries),
                        [raised |-> "",
                         job_ids |-> acc.job_ids \cup {job_id},
                         return_states |->
                            [j \in acc.job_ids \cup {job_id} |->
                                IF j = job_id THEN res.state ELSE acc.return_states[j]],
                         return_exitcodes |->
                            [j \in acc.job_ids \cup {job_id} |->
                                IF j = job_id THEN res.exitcode
                                ELSE acc.return_exitcodes[j]]])

ListenLocals ==
    [raised |-> "", job_ids |-> {}, return_states |-> <<>>, return_exitcodes |-> <<>>]

\* the orders in which `for job_id in job_ids` can visit a set
Orders(S) ==
    {o \in [1..Cardinality(S) -> S] : \A i, j \in 1..Cardinality(S) : i # j => o[i] # o[j]}

RECURSIVE ResDictOfAllJobs(_, _)
\* variant: the second loop does not skip the jobs in the running set
ResDictOfAllJobs(order, acc) ==
    IF order = <<>> THEN <<>>
    ELSE <<[job_id |-> Head(order), status |-> "Status.FINISHED",
            exitcode |-> acc.return_exitcodes[Head(order)]]>>
         \o ResDictOfAllJobs(Tail(order), acc)

RECURSIVE ResDictOnce(_, _)
\* variant: the listener remembers the ids it has published and leaves them out
\* of later batches
ResDictOnce(order, acc) ==
    IF order = <<>> THEN <<>>
    ELSE LET job_id == Head(order)
         IN  IF acc.return_states[job_id] \in _run_states \/ job_id \in emitted
             THEN ResDictOnce(Tail(order), acc)
             ELSE <<[job_id |-> job_id, status |-> "Status.FINISHED",
                     exitcode |-> acc.return_exitcodes[job_id]]>>
                  \o ResDictOnce(Tail(order), acc)

RECURSIVE ResDict(_, _)
\* the second for loop of listen(): the OrderedDict, as its items in insertion order
ResDict(order, acc) ==
    IF order = <<>> THEN <<>>
    ELSE LET job_id == Head(order)
         IN  IF acc.return_states[job_id] \in _run_states THEN ResDict(Tail(order), acc)
             ELSE <<[job_id |-> job_id, status |-> "Status.FINISHED",
                     exitcode |-> acc.return_exitcodes[job_id]]>>
                  \o ResDict(Tail(order), acc)

NoPoll ==
    [proc |-> "", result |-> <<>>, raised |-> "", put |-> FALSE, res_dict |-> <<>>]

\* variant: the loop catches the exception and goes on to its sleep
SwallowAndContinue(p, exc) == [lpc |-> "sleep", poll |-> [p EXCEPT !.raised = exc]]

\* nothing in listen() catches: an exception leaves `while True` and listen()
Propagate(p, exc) == [lpc |-> "raised", poll |-> [p EXCEPT !.raised = exc]]

\* line 180: the query of one iteration; an iteration starts when the queue has room
ListenQuery(sys) ==
    /\ lpc = "query"
    /\ Len(results) < MaxQueue
    /\ \/ LET after == Propagate([NoPoll EXCEPT !.proc = "fail"], "CalledProcessError")
          IN  lpc' = after.lpc /\ poll' = after.poll
       \/ \E env \in SacctAnswers(ListenCommand(command_wrapper), MaxPollRows, sys) :
             /\ env.proc = "ok"
             /\ lpc' = "evaluate"
             /\ poll' = [proc |-> "ok", result |-> env.out, raised |-> "", put |-> FALSE,
                         res_dict |-> <<>>]
    /\ UNCHANGED <<results, emitted, command_wrapper, submit_command, handle_vars>>

listen_query == ListenQuery(FALSE)

\* variant: the listener holds the object and stores the exit code of the
\* object's job when the batch names it
ListenPutStoringExitcode ==
    /\ lpc = "evaluate"
    /\ LET acc == ListenLoop(poll.result, ListenLocals)
       IN  \/ /\ acc.raised # ""
              /\ LET after == Propagate(poll, acc.raised)
                 IN  lpc' = after.lpc /\ poll' = after.poll
              /\ UNCHANGED <<results, self>>
           \/ /\ acc.raised = ""
              /\ \E order \in Orders(acc.job_ids) :
                    LET res_dict == ResDict(order, acc)
                        mine == {i \in 1..Len(res_dict) : Some(res_dict[i].job_id) = self._job_id}
                    IN  /\ results' = Append(results, res_dict)
                        /\ poll' = [poll EXCEPT !.put = TRUE, !.res_dict = res_dict]
                        /\ self' = IF mine = {} THEN self
                                   ELSE [self EXCEPT !._exitcode =
                                            Some(res_dict[CHOOSE i \in mine : TRUE].exitcode)]
              /\ lpc' = "sleep"
    /\ UNCHANGED <<emitted, command_wrapper, submit_command, sched_next_id, call, reported,
                   finished_for>>

\* lines 181-201: evaluate the answer and put the batch on the queue
listen_put ==
    /\ lpc = "evaluate"
    /\ LET acc == ListenLoop(poll.result, ListenLocals)
       IN  \/ /\ acc.raised # ""
              /\ LET after == Propagate(poll, acc.raised)
                 IN  lpc' = after.lpc /\ poll' = after.poll
              /\ UNCHANGED results
           \/ /\ acc.raised = ""
              /\ \E order \in Orders(acc.job_ids) :
                    LET res_dict == ResDict(order, acc)
                    IN  /\ results' = Append(results, res_dict)
                        /\ poll' = [poll EXCEPT !.put = TRUE, !.res_dict = res_dict]
              /\ lpc' = "sleep"
    /\ UNCHANGED <<emitted, command_wrapper, submit_command, handle_vars>>

\* variant: the query stands before `while True`, so an iteration after the
\* sleep evaluates the first answer again
ListenSleepWithoutQuery ==
    /\ lpc = "sleep"
    /\ lpc' = "evaluate"
    /\ emitted' = emitted \cup {poll.res_dict[i].job_id : i \in 1..Len(poll.res_dict)}
    /\ UNCHANGED <<poll, results, command_wrapper, submit_command, handle_vars>>

\* line 202: time.sleep(interval), then the next iteration, which starts from
\* fresh locals
listen_sleep ==
    /\ lpc = "sleep"
    /\ lpc' = "query"
    /\ poll' = NoPoll
    /\ emitted' = emitted \cup {poll.res_dict[i].job_id : i \in 1..Len(poll.res_dict)}
    /\ UNCHANGED <<results, command_wrapper, submit_command, handle_vars>>

\* the owner of the queue takes the oldest batch
results_get ==
    /\ results # <<>>
    /\ results' = Tail(results)
    /\ UNCHANGED <<lpc, poll, emitted, command_wrapper, submit_command, handle_vars>>

-----------------------------------------------------------------------------
(* _get_submit_command called on its own *)

get_submit_command ==
    /\ submit_command' = Some(_get_submit_command(self, command_wrapper))
    /\ UNCHANGED <<self, command_wrapper, sched_next_id, call, reported, finished_for,
                   listen_vars>>

-----------------------------------------------------------------------------
(* Specifications *)

\* the option sets the objects of Spec are built with
HandleOptions ==
    {NoOptions,
     [NoOptions EXCEPT !.partition = Some("part"), !.clusters = Some("clus")]}

InitRest ==
    /\ sched_next_id = 1
    /\ call = NoCall
    /\ reported = None
    /\ finished_for = {}
    /\ submit_command = None
    /\ lpc = "query"
    /\ results = <<>>
    /\ poll = NoPoll
    /\ emitted = {}

\* one object and its calls
Init ==
    /\ self \in {New(o, [kind |-> "none"]) : o \in HandleOptions}
    /\ command_wrapper = None
    /\ InitRest

Next == submit \/ cancel \/ status \/ exitcode \/ call_done

Spec == Init /\ [][Next]_vars

\* the listener loop and the owner of its queue
InitListen ==
    /\ self = New(NoOptions, [kind |-> "none"])
    /\ command_wrapper \in WrapperChoices
    /\ InitRest

NextListen == listen_query \/ listen_put \/ listen_sleep \/ results_get

SpecListen == InitListen /\ [][NextListen]_vars

\* the submit command of every job specification
InitCmd ==
    /\ self \in {New(o, a) : o \in AllOptions, a \in RunArgsChoices}
    /\ command_wrapper \in WrapperChoices
    /\ InitRest

NextCmd == get_submit_command

SpecCmd == InitCmd /\ [][NextCmd]_vars

\* one object and the listener side by side, every interleaving of the calls on
\* the object with the steps of the listener loop and of the queue's owner
InitSys ==
    /\ self = New(NoOptions, [kind |-> "none"])
    /\ command_wrapper = None
    /\ InitRest

NextSys ==
    \/ SubmitCall(TRUE)
    \/ CancelCall(TRUE)
    \/ StatusCall(TRUE)
    \/ ExitcodeCall(TRUE)
    \/ ListenQuery(TRUE)
    \/ listen_put
    \/ listen_sleep
    \/ results_get

SpecSys == InitSys /\ [][NextSys]_vars

-----------------------------------------------------------------------------
(* Properties of one object: Spec *)

\* the data lines of a per-job answer that status() does not skip
Survivors(out) == {i \in 1..Len(out) : out[i].suffix # ".batch"}

\* the last data line status() does not skip
LastSurvivor(out) == out[CHOOSE i \in Survivors(out) : \A k \in Survivors(out) : k <= i]

\* a per-job answer that shows no finished job: no data line at all, or a last
\* unskipped line whose state is PENDING or RUNNING
RunningAnswer(out) ==
    \/ Len(out) = 0
    \/ Survivors(out) # {} /\ LastSurvivor(out).state \in {"PENDING", "RUNNING"}

\* C1 as stated: once a status() call has returned Finished, no later status()
\* call on the object returns Running.  Stated for the case that favours the
\* claim most: the object is submitted and the Finished was returned under the
\* job id it still holds (job ids only grow, so the last report is then a later
\* one for the same job).
C1_FinishedIsTerminal ==
    (self._job_id # None /\ self._job_id \in finished_for)
    => reported # Some("Status.RUNNING")

\* C1 amended: the stored exit code, once set, is never cleared, and a status()
\* call made after an earlier one returned Finished returns Running only when
\* its own query answer shows no finished job (no data line, or a last unskipped
\* line in state PENDING or RUNNING): Finished is recomputed, not latched.
C1_ExitcodeKeptStatusRecomputed ==
    [][/\ self._exitcode # None => self'._exitcode # None
       /\ (/\ ever_finished
           /\ call = NoCall
           /\ call'.op = "status"
           /\ call'.ret = Some("Status.RUNNING"))
          => RunningAnswer(call'.out)]_vars

\* C1 witness: a status() call has returned Running after an earlier Finished,
\* the exit code still stored
C1_Witness ==
    /\ self._job_id \in finished_for
    /\ self._job_id # None
    /\ call.op = "status"
    /\ call.ret = Some("Status.RUNNING")
    /\ call.pre._exitcode # None
    /\ self._exitcode = call.pre._exitcode

\* C2 as stated: the exit code is set if and only if the status last reported
\* by status() is Finished.  Stated for a submitted object that has been
\* reported Finished under the job id it holds, the case that favours the claim.
C2_ExitcodeIffLastFinished ==
    (self._job_id # None /\ self._job_id \in finished_for)
    => ((self._exitcode # None) <=> (reported = Some("Status.FINISHED")))

\* C2 amended: the exit code is set if and only if some status() call on the
\* object has returned Finished; it is set whenever the last reported status is
\* Finished and absent as long as no status() call has returned Finished.
C2_ExitcodeIffEverFinished ==
    /\ (self._exitcode # None) <=> ever_finished
    /\ reported = Some("Status.FINISHED") => self._exitcode # None
    /\ reported = None => self._exitcode = None

\* C2 witness: the exit code is set while the last reported status is Running
C2_Witness ==
    /\ self._job_id # None
    /\ self._job_id \in finished_for
    /\ self._exitcode # None
    /\ reported = Some("Status.RUNNING")

\* C3: a status() call whose answer has one unskipped data line with state s and
\* exit code e returns Running and keeps the stored exit code when s is PENDING
\* or RUNNING, and otherwise returns Finished and stores e.
C3_StatusFollowsSurvivingRow ==
    (/\ call.op = "status"
     /\ call.proc = "ok"
     /\ Cardinality(Survivors(call.out)) = 1)
    => LET row == LastSurvivor(call.out)
       IN  IF row.state \in {"PENDING", "RUNNING"}
           THEN /\ call.raised = ""
                /\ call.ret = Some("Status.RUNNING")
                /\ self._exitcode = call.pre._exitcode
           ELSE /\ call.raised = ""
                /\ call.ret = Some("Status.FINISHED")
                /\ self._exitcode = Some(row.exitcode)

\* C3 witness: a parent line in state FAILED beside a .batch line in another
\* state, read as Finished with the parent's exit code
C3_Witness ==
    /\ call.op = "status"
    /\ call.pre._job_id # None
    /\ Len(call.out) = 2
    /\ Cardinality(Survivors(call.out)) = 1
    /\ LastSurvivor(call.out).state = "FAILED"
    /\ \E i \in 1..2 : call.out[i].suffix = ".batch" /\ call.out[i].state = "RUNNING"
    /\ call.ret = Some("Status.FINISHED")
    /\ self._exitcode = Some("1:0")

\* C5 as stated: cancel() on an object that has no job id ends in an error and
\* runs no cancellation command.
C5_CancelWithoutJobIdFails ==
    (call.op = "cancel" /\ call.pre._job_id = None)
    => (call.raised # "" /\ call.cmds = <<>>)

\* the exit code exitcode() has to return after running the answer `c` describes
ExitcodeAfter(c) ==
    IF c.pre._exitcode # None THEN c.pre._exitcode
    ELSE IF RunningAnswer(c.out) THEN None
    ELSE Some(LastSurvivor(c.out).exitcode)

\* C6: exitcode() runs one status query when no exit code is stored at the call
\* and none when one is stored, and returns the exit code stored afterwards
\* (still absent when the query showed the job running or not yet visible).
C6_ExitcodeQueriesOnceIfUnset ==
    call.op = "exitcode"
    => /\ Len(call.cmds) = (IF call.pre._exitcode = None THEN 1 ELSE 0)
       /\ \A i \in 1..Len(call.cmds) : call.cmds[i][1] = Word("sacct")
       /\ call.raised = ""
          => /\ call.ret = Some(self._exitcode)
             /\ self._exitcode = ExitcodeAfter(call)

\* C6 witness: exitcode() on a stored exit code, answered without a query
C6_Witness ==
    /\ call.op = "exitcode"
    /\ call.pre._exitcode # None
    /\ call.cmds = <<>>
    /\ call.ret = Some(call.pre._exitcode)

\* sbatch output in the layout submit() reads: a fourth token that is a number
ExpectedLayout(out) ==
    Len(out) >= 4 /\ out[4] \in {FormatInt(n) : n \in 0..9}

\* C7: submit() assigns the job id only on success. A failed sbatch process and
\* an output in an unexpected layout end in different errors and leave the job
\* id as it was; on success the parsed id is stored and returned.
C7_SubmitAssignsOnlyOnSuccess ==
    call.op = "submit"
    => /\ call.proc = "fail" => call.raised = "CalledProcessError"
       /\ (call.proc = "ok" /\ ~ExpectedLayout(call.out))
          => call.raised \in {"IndexError", "ValueError"}
       /\ call.raised # "" => (self._job_id = call.pre._job_id /\ call.ret = None)
       /\ (call.proc = "ok" /\ ExpectedLayout(call.out))
          => /\ call.raised = ""
             /\ self._job_id = Some(sched_next_id - 1)
             /\ call.ret = Some(sched_next_id - 1)

\* C7 witness: a second submit() whose output cannot be read leaves the first id
C7_Witness ==
    /\ call.op = "submit"
    /\ call.proc = "ok"
    /\ call.raised = "ValueError"
    /\ call.pre._job_id = Some(1)
    /\ self._job_id = Some(1)

\* C8: a status() call whose sacct process fails ends in an error, returns no
\* Status and leaves the stored exit code and job id unchanged.
C8_QueryFailureIsNotAStatus ==
    (call.op = "status" /\ call.proc = "fail")
    => /\ call.raised = "CalledProcessError"
       /\ call.ret = None
       /\ self._exitcode = call.pre._exitcode
       /\ self._job_id = call.pre._job_id

\* C8 witness: the query fails on a submitted object that holds an exit code
C8_Witness ==
    /\ call.op = "status"
    /\ call.proc = "fail"
    /\ call.raised = "CalledProcessError"
    /\ self._job_id # None
    /\ self._exitcode # None

\* C11: a status() call whose answer holds the header line and no data line
\* returns Running and leaves the stored exit code exactly as it was, absent or
\* already set.
C11_HeaderOnlyIsRunning ==
    (call.op = "status" /\ call.proc = "ok" /\ Len(call.out) = 0)
    => /\ call.raised = ""
       /\ call.ret = Some("Status.RUNNING")
       /\ self = call.pre

\* C11 witness: a header-only answer on a submitted object that holds an exit
\* code, which is still stored afterwards
C11_Witness ==
    /\ call.op = "status"
    /\ call.proc = "ok"
    /\ Len(call.out) = 0
    /\ call.pre._job_id # None
    /\ call.pre._exitcode = Some("1:0")
    /\ self._exitcode = Some("1:0")
    /\ call.ret = Some("Status.RUNNING")

\* the data lines of a per-job answer that are the job's own line (no suffix)
ParentRows(out) == {i \in 1..Len(out) : out[i].suffix = ""}

\* a per-job answer that mixes one parent line with .batch or .extern step lines
ParentWithSteps(out) ==
    /\ Cardinality(ParentRows(out)) = 1
    /\ \A i \in 1..Len(out) : out[i].suffix \in {"", ".batch", ".extern"}

\* C14 as stated: the state and exit code of status() are never taken from a
\* step line.  For every answer that mixes the parent line with .batch or
\* .extern lines, in any order, the call ends as it does for the parent line
\* alone.  Stated for a submitted object, whose query names its job.
C14_StepRowsNeverDecide ==
    (/\ call.op = "status"
     /\ call.proc = "ok"
     /\ call.pre._job_id # None
     /\ ParentWithSteps(call.out))
    => LET parent == call.out[CHOOSE i \in ParentRows(call.out) : TRUE]
           alone == status_call(call.pre, [proc |-> "ok", out |-> <<parent>>])
       IN  /\ call.raised = alone.raised
           /\ call.ret = alone.ret
           /\ self = alone.self

\* the positions of command where `-j` is followed by the job id `job_id`
ScopedTo(command, job_id) ==
    {k \in 1..(Len(command) - 1) :
        command[k] = Flag("-j") /\ command[k + 1] = Word(FormatOptInt(job_id))}

\* C16 as stated: every query that status() issues, directly or through
\* exitcode(), is restricted to the object's own job id; in no reachable state,
\* the object on which submit() has not succeeded included, does status() issue
\* a query that is not restricted to one job id.
C16_StatusQueryIsScoped ==
    call.op \in {"status", "exitcode"}
    => \A i \in 1..Len(call.cmds) :
          /\ \E k \in 1..Len(call.cmds[i]) : call.cmds[i][k] = Flag("-j")
          /\ call.pre._job_id # None => ScopedTo(call.cmds[i], call.pre._job_id) # {}

\* C18 as stated: status() returns a Status without an error for every answer
\* of a header line and well-formed data lines, the answer whose data lines are
\* all .batch lines included; for that answer it returns Running and leaves the
\* stored exit code unchanged.  Stated for a submitted object, whose query
\* names its job.
C18_StatusNeverFaultsOnWellFormedRows ==
    (call.op = "status" /\ call.proc = "ok" /\ call.pre._job_id # None)
    => /\ call.raised = ""
       /\ call.ret \in {Some("Status.RUNNING"), Some("Status.FINISHED")}
       /\ (Len(call.out) > 0 /\ Survivors(call.out) = {})
          => (call.ret = Some("Status.RUNNING") /\ self = call.pre)

\* C19: submit() changes only the job id and leaves the stored exit code as it
\* was; an exitcode() call on an object that holds an exit code, the object
\* submitted again since the code was stored included, returns that earlier
\* exit code and issues no query.
C19_SubmitKeepsExitcode ==
    /\ call.op = "submit"
       => /\ self = [call.pre EXCEPT !._job_id = self._job_id]
          /\ self._exitcode = call.pre._exitcode
    /\ (call.op = "exitcode" /\ call.pre._exitcode # None)
       => /\ call.cmds = <<>>
          /\ call.raised = ""
          /\ call.ret = Some(call.pre._exitcode)
          /\ self = call.pre

\* the object holds an exit code that no status() call under its present job id
\* has produced
HoldsEarlierExitcode ==
    /\ self._job_id = Some(2)
    /\ finished_for = {Some(1)}
    /\ self._exitcode # None

\* C19 witness: after job 1 was reported Finished and the object was submitted
\* again as job 2, exitcode() has returned job 1's exit code without a query
C19_Witness ==
    /\ HoldsEarlierExitcode
    /\ call.op = "exitcode"
    /\ call.pre._job_id = Some(2)
    /\ call.cmds = <<>>
    /\ call.ret = Some(Some("1:0"))

-----------------------------------------------------------------------------
(* Properties of the listener: SpecListen *)

\* the data lines of a listener answer without a .batch or .extern suffix
PollSurvivors(out) ==
    {i \in 1..Len(out) : out[i].suffix \notin {".batch", ".extern"}}

\* those of them that belong to job j
RowsOf(out, j) == {i \in PollSurvivors(out) : out[i].id = FormatInt(j)}

LastRowOf(out, j) == out[CHOOSE i \in RowsOf(out, j) : \A k \in RowsOf(out, j) : k <= i]

\* the jobs with such a line whose recorded state is not PENDING or RUNNING
FinishedIds(out) ==
    {j \in JobIds : RowsOf(out, j) # {}
                    /\ LastRowOf(out, j).state \notin {"PENDING", "RUNNING"}}

\* C4: the batch a poll publishes holds exactly the jobs that have a data line
\* without .batch or .extern suffix in the poll's answer and whose recorded
\* state is not PENDING or RUNNING, each once, with status Finished and its exit
\* code; running jobs and jobs seen only in step lines have no entry.  The batch
\* is what the poll puts on the queue.
C4_BatchIsTheFinishedJobs ==
    /\ [](poll.put
          => LET d == poll.res_dict
             IN  /\ {d[i].job_id : i \in 1..Len(d)} = FinishedIds(poll.result)
                 /\ Len(d) = Cardinality(FinishedIds(poll.result))
                 /\ \A i \in 1..Len(d) :
                       /\ d[i].status = "Status.FINISHED"
                       /\ d[i].exitcode = LastRowOf(poll.result, d[i].job_id).exitcode)
    /\ [][(poll'.put /\ ~poll.put) => results' = Append(results, poll'.res_dict)]_vars

\* C4 witness: a poll with a FAILED job and another job seen only in a .extern
\* line has published a batch with the FAILED job alone
C4_Witness ==
    /\ poll.put
    /\ Len(poll.result) = 2
    /\ \E i, k \in 1..2 :
          /\ poll.result[i].suffix = "" /\ poll.result[i].state = "FAILED"
          /\ poll.result[k].suffix = ".extern" /\ poll.result[k].state = "COMPLETED"
          /\ poll.result[k].id # poll.result[i].id
    /\ Len(poll.res_dict) = 1
    /\ poll.res_dict[1].exitcode = "1:0"
    /\ results = <<poll.res_dict>>

\* C9: when the query of an iteration fails, the listener publishes no batch for
\* it, runs no further query and ends with the error raised to whoever runs
\* listen().
C9_QueryFailureEndsTheListener ==
    /\ [](poll.proc = "fail"
          => lpc = "raised" /\ poll.raised = "CalledProcessError" /\ ~poll.put)
    /\ [][/\ (poll'.proc = "fail" /\ poll.proc # "fail") => results' = results
          /\ lpc = "raised"
             => lpc' = "raised" /\ poll' = poll /\ Len(results') <= Len(results)]_vars

\* C9 witness: the listener has ended on a failed query
C9_Witness ==
    /\ lpc = "raised"
    /\ poll.proc = "fail"
    /\ poll.raised = "CalledProcessError"

\* the first data line of job j that the listener does not skip
FirstRowOf(out, j) == CHOOSE i \in RowsOf(out, j) : \A k \in RowsOf(out, j) : i <= k

\* C12 as stated: the entries of a published batch are in the order in which
\* their jobs were first discovered: when the first unskipped line of job a
\* comes before the first unskipped line of job b in the poll's answer, a's
\* entry comes before b's in the published mapping.
C12_BatchInDiscoveryOrder ==
    poll.put
    => LET d == poll.res_dict
       IN  \A i, k \in 1..Len(d) :
              FirstRowOf(poll.result, d[i].job_id) < FirstRowOf(poll.result, d[k].job_id)
              => i < k

\* a listener answer whose data lines all carry a plain job number or one of the
\* two step suffixes the loop skips
Readable(out) == \A i \in 1..Len(out) : out[i].suffix \in {"", ".batch", ".extern"}

\* C13: in a listener run queries and published batches alternate strictly,
\* starting with a query before any sleep.  A batch is put only by an iteration
\* whose own query has succeeded and that has not put one yet, it is exactly one
\* batch (the empty mapping when no job has finished), and the iteration then
\* sleeps; a query is issued only at the start of an iteration, after the sleep
\* of the one before; an iteration whose answer the loop can read always puts
\* its batch.
C13_QueryPutSleepAlternate ==
    /\ [](/\ lpc = "sleep" => (poll.proc = "ok" /\ poll.put)
          /\ lpc = "query" => poll = NoPoll
          /\ lpc = "evaluate" => (poll.proc = "ok" /\ ~poll.put)
          /\ (poll.put /\ FinishedIds(poll.result) = {}) => poll.res_dict = <<>>)
    /\ [][/\ Len(results') > Len(results)
             => /\ lpc = "evaluate" /\ poll.proc = "ok" /\ ~poll.put
                /\ results' = Append(results, poll'.res_dict)
                /\ poll'.put /\ poll'.result = poll.result
                /\ lpc' = "sleep"
          /\ poll'.proc # poll.proc
             => \/ lpc = "query" /\ poll = NoPoll /\ poll'.proc \in {"ok", "fail"}
                \/ lpc = "sleep" /\ poll.put /\ poll' = NoPoll /\ lpc' = "query"
          /\ (lpc = "evaluate" /\ lpc' # lpc /\ Readable(poll.result))
             => Len(results') = Len(results) + 1
          /\ (lpc = "sleep" /\ lpc' # lpc) => (lpc' = "query" /\ results' = results)]_vars

\* C13 witness: the second iteration has put the empty mapping after an answer
\* that shows a running job only; the first iteration's batch named job 1
C13_Witness ==
    /\ emitted = {1}
    /\ lpc = "sleep"
    /\ poll.put
    /\ Len(poll.result) = 1
    /\ poll.result[1].state = "RUNNING"
    /\ poll.res_dict = <<>>
    /\ results = <<<<>>>>

\* the entries of a batch, without their order
Entries(d) == {d[i] : i \in 1..Len(d)}

\* C15: when one poll's answer has several unskipped lines for the same job id,
\* the last of them in scan order decides whether the job is in the batch and
\* with which exit code, and it does so whatever order the set of ids is
\* visited in.
C15_LastRowOfAJobDecides ==
    poll.put
    => /\ \A j \in JobIds :
             Cardinality(RowsOf(poll.result, j)) >= 2
             => LET last == LastRowOf(poll.result, j)
                    mine == {e \in Entries(poll.res_dict) : e.job_id = j}
                IN  IF last.state \in {"PENDING", "RUNNING"} THEN mine = {}
                    ELSE mine = {[job_id |-> j, status |-> "Status.FINISHED",
                                  exitcode |-> last.exitcode]}
       /\ LET acc == ListenLoop(poll.result, ListenLocals)
          IN  \A order \in Orders(acc.job_ids) :
                 Entries(ResDict(order, acc)) = Entries(poll.res_dict)

\* C15 witness: job 1, listed as RUNNING and then as FAILED in one answer, is
\* published with the exit code of the second line
C15_Witness ==
    /\ poll.put
    /\ Len(poll.result) = 2
    /\ poll.result[1] = [id |-> "1", suffix |-> "", state |-> "RUNNING", exitcode |-> "0:0"]
    /\ poll.result[2] = [id |-> "1", suffix |-> "", state |-> "FAILED", exitcode |-> "1:0"]
    /\ poll.res_dict = <<[job_id |-> 1, status |-> "Status.FINISHED", exitcode |-> "1:0"]>>

\* C20: the listener keeps nothing from one poll to the next.  A job published
\* in an earlier batch that the present answer still lists as finished is in the
\* present batch again, with the exit code of the present answer, and a job
\* published earlier that the present answer no longer lists, or lists as
\* running, is not; each iteration starts from empty locals.
C20_FinishedJobsAreEmittedAgain ==
    /\ [](poll.put
          => \A j \in emitted :
                LET mine == {e \in Entries(poll.res_dict) : e.job_id = j}
                IN  IF j \in FinishedIds(poll.result)
                    THEN mine = {[job_id |-> j, status |-> "Status.FINISHED",
                                  exitcode |-> LastRowOf(poll.result, j).exitcode]}
                    ELSE mine = {})
    /\ [][lpc' = "query" => poll' = NoPoll]_vars

\* C20 witness: job 1, published in an earlier batch, is published again by a
\* later poll, and job 2, published earlier too, is absent from that batch
C20_Witness ==
    /\ poll.put
    /\ emitted = {1, 2}
    /\ 1 \in FinishedIds(poll.result)
    /\ \E i \in 1..Len(poll.res_dict) : poll.res_dict[i].job_id = 1
    /\ \A i \in 1..Len(poll.res_dict) : poll.res_dict[i].job_id # 2

-----------------------------------------------------------------------------
(* Properties of an object beside the listener: SpecSys *)

\* a step of the listener loop: its position or its locals change, or the queue
\* grows
ListenerStep ==
    \/ lpc' # lpc
    \/ poll' # poll
    \/ emitted' # emitted
    \/ Len(results') > Len(results)

\* C17: in every interleaving of the listener loop with submit(), status(),
\* exitcode() and cancel() on an object, no step of the listener changes the
\* object's job id or exit code, or anything else of the object and of the
\* scheduler's numbering; outside its own locals a listener step at most
\* appends its batch to the queue.
C17_ListenerWritesNoObject ==
    [][ListenerStep
       => /\ self'._job_id = self._job_id
          /\ self'._exitcode = self._exitcode
          /\ self' = self
          /\ UNCHANGED <<sched_next_id, submit_command, command_wrapper>>
          /\ results' \in {results, Append(results, poll'.res_dict)}]_vars

\* C17 witness: the listener has published that job 1 has finished with exit
\* code 1:0 while the object submitted as job 1, which a status() call once
\* found running, still holds no exit code
C17_Witness ==
    /\ self._job_id = Some(1)
    /\ self._exitcode = None
    /\ reported = Some("Status.RUNNING")
    /\ poll.put
    /\ poll.res_dict = <<[job_id |-> 1, status |-> "Status.FINISHED", exitcode |-> "1:0"]>>
    /\ results = <<poll.res_dict>>

-----------------------------------------------------------------------------
(* Properties of the submit command: SpecCmd *)

FieldOrder ==
    <<"name", "log", "partition", "exclude", "clusters", "qos", "mem", "time", "export">>

OptionFlags ==
    <<"-J", "-o", "-p", "-x", "-M", "--qos=", "--mem=", "--time=", "--export=">>

\* the words of the run arguments
ArgWords(run_args) ==
    IF run_args.kind = "str" THEN run_args.words
    ELSE IF run_args.kind = "list" THEN Flatten(run_args.items)
    ELSE <<>>

\* C10: for every set of options that are given (hold a non-empty value), the
\* submit command has exactly one flag, with its value, for each given option
\* and none for the others, in the order name, log, partition, exclude,
\* clusters, qos, mem, time, export, then the resolved script, then the run
\* arguments.
C10_OneFlagPerSetFieldInOrder ==
    submit_command # None
    => LET cmd == submit_command[1]
           At(k) == {i \in 1..Len(cmd) : cmd[i].flag = OptionFlags[k]}
           Script == {i \in 1..Len(cmd) : cmd[i] = Word("run.sh")}
           Sbatch == {i \in 1..Len(cmd) : cmd[i] = Word("sbatch")}
       IN  /\ \A k \in 1..9 :
                 Cardinality(At(k)) = (IF Truthy(self[FieldOrder[k]]) THEN 1 ELSE 0)
           /\ \A k \in 1..9 : \A i \in At(k) :
                 IF k <= 5
                 THEN i < Len(cmd) /\ cmd[i + 1] = Word(OptionValue[FieldOrder[k]])
                 ELSE cmd[i].arg = OptionValue[FieldOrder[k]]
           /\ \A i \in 1..Len(cmd) :
                 cmd[i].flag # "" => \E k \in 1..9 : cmd[i].flag = OptionFlags[k]
           /\ \A k1, k2 \in 1..9 : \A i1 \in At(k1), i2 \in At(k2) :
                 k1 < k2 => i1 < i2
           /\ Cardinality(Script) = 1
           /\ Cardinality(Sbatch) = 1
           /\ \A p \in Script, b \in Sbatch :
                 /\ \A k \in 1..9 : \A i \in At(k) : b < i /\ i < p
                 /\ SubSeq(cmd, p + 1, Len(cmd)) = Words(ArgWords(self.run_args))

\* C10 witness: a command built for a job with partition, exclude and export
\* given, an empty log, no name and a list of run arguments
C10_Witness ==
    /\ submit_command # None
    /\ self.name = None
    /\ self.log = Some("")
    /\ Truthy(self.partition)
    /\ Truthy(self.exclude)
    /\ self.qos = None
    /\ Truthy(self.export)
    /\ self.run_args.kind = "list"
    /\ self.run_args.items # <<>>
    /\ Len(submit_command[1]) = 10

====
